---- MODULE Spec2Model ----
(***************************************************************************)
(* Model of the Wikipedia word-distribution pipeline                       *)
(* (src/wiki_word_count.py, src/decorators.py): main() reads a topic list, *)
(* submits one word_distribution_task per topic to a thread pool, each     *)
(* task fetches its page through the retry wrapper, tokenizes it and       *)
(* writes its counts into the shared data frame under the module lock;     *)
(* main waits for all futures and writes the frame to the csv file.        *)
(*                                                                         *)
(* Texts are sequences of one-character strings.  Python's None result of  *)
(* the fetch is the record PyNone; a table cell holding None is the        *)
(* number None (word counts are always >= 1).                              *)
(***************************************************************************)
EXTENDS Integers, Sequences, FiniteSets, TLC

(***************************************************************************)
(* Bounds of the model and constants of the program                        *)
(***************************************************************************)
\* longest topic file read by a run of the model
MaxTopics == 2

\* the longest text given to the tokenizer on its own
MaxLen == 3

\* wiki_word_count.py:17 (decorators.py:7 MAX_RETRIES)
max_retries == 3

\* wiki_word_count.py:147
max_threads == 3

\* the value df[word] = None puts in every row of a new column
None == 0

(***************************************************************************)
(* Characters                                                              *)
(***************************************************************************)
UpperCase ==
    <<"A", "B", "C", "D", "E", "F", "G", "H", "I", "J", "K", "L", "M",
      "N", "O", "P", "Q", "R", "S", "T", "U", "V", "W", "X", "Y", "Z">>
LowerCase ==
    <<"a", "b", "c", "d", "e", "f", "g", "h", "i", "j", "k", "l", "m",
      "n", "o", "p", "q", "r", "s", "t", "u", "v", "w", "x", "y", "z">>

\* characters matched by [a-zA-Z]
IsLetter(c) == \E i \in 1..Len(UpperCase) : c = UpperCase[i] \/ c = LowerCase[i]

\* characters matched by \w: letters, digits and the underscore
IsWordChar(c) ==
    IsLetter(c) \/ c \in {"0", "1", "2", "3", "4", "5", "6", "7", "8", "9", "_"}

\* str.strip() removes these
IsSpace(c) == c \in {" ", "\n", "\t"}

\* str.lower() on one character
LowerChar(c) ==
    IF \E i \in 1..Len(UpperCase) : c = UpperCase[i]
    THEN LowerCase[CHOOSE i \in 1..Len(UpperCase) : c = UpperCase[i]]
    ELSE c

\* str.lower() of the characters s[i..j], as a string
RECURSIVE LowerStr(_, _, _)
LowerStr(s, i, j) ==
    IF i > j THEN "" ELSE LowerChar(s[i]) \o LowerStr(s, i + 1, j)

(***************************************************************************)
(* read_file: line.strip() then .lower()                                   *)
(***************************************************************************)
RECURSIVE FirstNonSpace(_, _)
FirstNonSpace(s, i) ==
    IF i > Len(s) \/ ~IsSpace(s[i]) THEN i ELSE FirstNonSpace(s, i + 1)

RECURSIVE LastNonSpace(_, _)
LastNonSpace(s, j) ==
    IF j < 1 \/ ~IsSpace(s[j]) THEN j ELSE LastNonSpace(s, j - 1)

strip_lower(line) ==
    LowerStr(line, FirstNonSpace(line, 1), LastNonSpace(line, Len(line)))

(***************************************************************************)
(* re.findall(r'\b[a-zA-Z]+\b', page_content)                              *)
(***************************************************************************)
\* \b at position i, the gap between s[i-1] and s[i] (1 <= i <= Len(s)+1)
WordBoundary(s, i) ==
    LET before == i > 1 /\ IsWordChar(s[i - 1])
        after == i <= Len(s) /\ IsWordChar(s[i])
    IN  before # after

\* the end of the greedy run [a-zA-Z]+ that starts at i (i - 1 when empty)
RECURSIVE LetterRunEnd(_, _)
LetterRunEnd(s, i) ==
    IF i <= Len(s) /\ IsLetter(s[i]) THEN LetterRunEnd(s, i + 1) ELSE i - 1

\* the last j in i..hi with \b after s[j], trying the longest run first
\* (backtracking of the + quantifier); 0 when the pattern fails at i
RECURSIVE MatchEnd(_, _, _)
MatchEnd(s, i, hi) ==
    IF hi < i THEN 0
    ELSE IF WordBoundary(s, hi + 1) THEN hi
    ELSE MatchEnd(s, i, hi - 1)

\* the pattern tried at i: \b, then the letters, then \b
MatchAt(s, i) ==
    IF WordBoundary(s, i) THEN MatchEnd(s, i, LetterRunEnd(s, i)) ELSE 0

\* the non-overlapping matches from position i on, left to right
RECURSIVE findall(_, _)
findall(s, i) ==
    IF i > Len(s) THEN << >>
    ELSE IF MatchAt(s, i) # 0
         THEN << SubSeq(s, i, MatchAt(s, i)) >> \o findall(s, MatchAt(s, i) + 1)
         ELSE findall(s, i + 1)

(***************************************************************************)
(* words_distribution_to_dict, lines 116-123: the dict as the sequence of  *)
(* its items in insertion order                                            *)
(***************************************************************************)
DictKeys(d) == { d[i].word : i \in 1..Len(d) }

DictGet(d, w) == d[CHOOSE i \in 1..Len(d) : d[i].word = w].count

DictAdd(d, w) ==
    IF w \notin DictKeys(d)
    THEN Append(d, [word |-> w, count |-> 1])
    ELSE [i \in 1..Len(d) |->
            IF d[i].word = w THEN [d[i] EXCEPT !.count = @ + 1] ELSE d[i]]

RECURSIVE CountWords(_, _, _)
CountWords(words, n, d) ==
    IF n > Len(words) THEN d
    ELSE CountWords(words, n + 1,
                    DictAdd(d, LowerStr(words[n], 1, Len(words[n]))))

Tokenize(page_content) == CountWords(findall(page_content, 1), 1, << >>)

(***************************************************************************)
(* The environment: the topic file and the remote API                      *)
(***************************************************************************)
\* lines of topic.txt, as readlines() returns them
FileLines ==
    << <<"C", "a", "t", "\n">>,
       <<" ", "D", "o", "g", " ", "\n">>,
       <<"z", "z", "z", "\n">>,
       <<"F", "l", "a", "k", "y">> >>

\* the pool of the source and, to compare with it, the pool of one worker
PoolSizes == {1, max_threads}

\* topic.txt is missing, or holds the first n lines of FileLines
TopicFiles ==
    {[exists |-> FALSE, lines |-> << >>]} \cup
    {[exists |-> TRUE, lines |-> SubSeq(FileLines, 1, n)] : n \in 0..MaxTopics}

\* the content the API may hold for a title: "Cat, cat2 dog" for cat,
\* "dog dog cat" for dog, the empty page for zzz
PagesOf(title) ==
    CASE title = "cat" ->
            { <<"C", "a", "t", ",", " ", "c", "a", "t", "2", " ", "d", "o", "g">> }
      [] title = "dog" ->
            { <<"d", "o", "g", " ", "d", "o", "g", " ", "c", "a", "t">> }
      [] title = "zzz" ->
            { << >> }
      [] OTHER ->
            { <<"c", "a", "t", " ", "c", "a", "t", " ", "d", "o", "g">> }

\* what requests.get and response.json() can give for one request
Responses(title) ==
    {[kind |-> k, content |-> << >>] :
        k \in {"ConnectionError", "429", "null", "no_query", "-1"}} \cup
    {[kind |-> "page", content |-> p] : p \in PagesOf(title)}

\* the characters of the texts given to the tokenizer on its own: letters of
\* both cases, a digit, the underscore and a space
TokChars == {"a", "B", "1", "_", " "}

\* any text the API may return as the extract of a page, up to MaxLen characters
Texts == UNION { [1..n -> TokChars] : n \in 0..MaxLen }

\* every page of the API, with its word counts, computed once
AllPages ==
    UNION { PagesOf(strip_lower(FileLines[i])) : i \in 1..Len(FileLines) } \cup Texts

WordCounts == { << p, Tokenize(p) >> : p \in AllPages }

\* lines 116-123 on a page of the API
words_count(page_content) ==
    (CHOOSE pair \in WordCounts : pair[1] = page_content)[2]

(***************************************************************************)
(* Python values of page_content                                           *)
(***************************************************************************)
Unbound == [kind |-> "unbound", text |-> << >>]
PyNone == [kind |-> "None", text |-> << >>]
PyStr(s) == [kind |-> "str", text |-> s]

(***************************************************************************)
(* get_wikipedia_page without its decorator, lines 68-96: the exception    *)
(* raised ("" when none), the value returned and what it prints            *)
(***************************************************************************)
\* variant: the test data == None is missing and a null body returns None
get_wikipedia_page_null_returns_none(response) ==
    CASE response.kind = "ConnectionError" ->
            [exc |-> "ConnectionError", ret |-> Unbound, out |-> {}]
      [] response.kind = "429" ->
            [exc |-> "RateLimitException", ret |-> Unbound, out |-> {}]
      [] response.kind \in {"null", "no_query"} ->
            [exc |-> "", ret |-> PyNone, out |-> {"'query' key not found"}]
      [] response.kind = "-1" ->
            [exc |-> "", ret |-> PyNone, out |-> {}]
      [] OTHER ->
            [exc |-> "", ret |-> PyStr(response.content), out |-> {}]

get_wikipedia_page(response) ==
    CASE response.kind = "ConnectionError" ->
            [exc |-> "ConnectionError", ret |-> Unbound, out |-> {}]
      [] response.kind = "429" ->
            [exc |-> "RateLimitException", ret |-> Unbound, out |-> {}]
      [] response.kind = "null" ->
            [exc |-> "RateLimitException", ret |-> Unbound, out |-> {}]
      [] response.kind = "no_query" ->
            [exc |-> "", ret |-> PyNone, out |-> {"'query' key not found"}]
      [] response.kind = "-1" ->
            [exc |-> "", ret |-> PyNone, out |-> {}]
      [] OTHER ->
            [exc |-> "", ret |-> PyStr(response.content), out |-> {}]

(***************************************************************************)
(* The shared data frame: index (row labels), columns in creation order,   *)
(* and the cell of every row and column                                    *)
(***************************************************************************)
Range(s) == { s[i] : i \in 1..Len(s) }

\* pd.DataFrame(index=topic_list)
DataFrame(index) ==
    [index |-> index, columns |-> << >>,
     cells |-> [t \in Range(index) |-> << >>]]

\* variant: the frame is rebuilt with the new word as its only column
SetOnlyColumn(df, word) ==
    [df EXCEPT
        !.columns = << word >>,
        !.cells = [t \in DOMAIN df.cells |-> [w \in {word} |-> None]]]

\* df[word] = None
SetColumnNone(df, word) ==
    [df EXCEPT
        !.columns = IF word \in Range(df.columns) THEN @ ELSE Append(@, word),
        !.cells = [t \in DOMAIN df.cells |->
                     [w \in Range(df.columns) \cup {word} |->
                        IF w = word THEN None ELSE df.cells[t][w]]]]

\* variant: df[word] = count, which writes the count into every row
SetWholeColumn(df, topic, word, count) ==
    [df EXCEPT !.cells = [t \in DOMAIN df.cells |->
                            [df.cells[t] EXCEPT ![word] = count]]]

\* df.at[topic, word] = count
SetAt(df, topic, word, count) ==
    [df EXCEPT !.cells[topic][word] = count]

(***************************************************************************)
(* State                                                                   *)
(***************************************************************************)
VARIABLES
    topic_file,         \* the topic file on disk
    max_workers,        \* the pool size given to ThreadPoolExecutor
    pc_main,            \* where main() is
    topic_list,         \* read_file's result: [is_none, items]
    shared_data_frame,  \* the data frame every task writes to
    task,               \* futures: one record per submitted task
    lock,               \* 0 when free, else the task holding it
    unknown_error,      \* main printed "Unknown Error"
    csv                 \* the frames written by to_csv, in order

vars == << topic_file, max_workers, pc_main, topic_list, shared_data_frame,
           task, lock, unknown_error, csv >>

Tasks == 1..Len(task)

Terminal(k) == task[k].pc \in {"returned", "raised"}

\* variant: a worker whose task raised is lost to the pool
RunningOrRaised == { k \in Tasks : task[k].pc \notin {"queued", "returned"} }

Running == { k \in Tasks : task[k].pc # "queued" /\ ~Terminal(k) }

NewTask(topic) ==
    [topic |-> topic, pc |-> "queued", calls |-> 0, delays |-> 0,
     limited |-> 0, response |-> "", page_content |-> Unbound,
     words_count_dict |-> << >>, word |-> 1, log |-> {}, exc |-> ""]

Init ==
    /\ topic_file \in TopicFiles
    /\ max_workers \in PoolSizes
    /\ pc_main = "read_file"
    /\ topic_list = [is_none |-> TRUE, items |-> << >>]
    /\ shared_data_frame = DataFrame(<< >>)
    /\ task = << >>
    /\ lock = 0
    /\ unknown_error = FALSE
    /\ csv = << >>

(***************************************************************************)
(* main, lines 142-161                                                     *)
(***************************************************************************)
\* read_file, lines 48-62: the topics, or None when the file is missing
read_file(file) ==
    IF file.exists
    THEN [is_none |-> FALSE,
          items |-> [i \in 1..Len(file.lines) |-> strip_lower(file.lines[i])]]
    ELSE [is_none |-> TRUE, items |-> << >>]

\* lines 144-148
ReadFile ==
    /\ pc_main = "read_file"
    /\ topic_list' = read_file(topic_file)
    /\ shared_data_frame' = DataFrame(read_file(topic_file).items)
    /\ pc_main' = "submit"
    /\ UNCHANGED << topic_file, max_workers, task, lock, unknown_error, csv >>

\* variant: main has no except clause, the TypeError ends the process
SubmitUncaught ==
    /\ pc_main = "submit"
    /\ IF topic_list.is_none
       THEN /\ pc_main' = "crashed"
            /\ UNCHANGED << task, unknown_error >>
       ELSE IF Len(task) < Len(topic_list.items)
       THEN /\ task' = Append(task, NewTask(topic_list.items[Len(task) + 1]))
            /\ UNCHANGED << pc_main, unknown_error >>
       ELSE /\ pc_main' = "wait"
            /\ UNCHANGED << task, unknown_error >>
    /\ UNCHANGED << topic_file, max_workers, topic_list, shared_data_frame,
                    lock, csv >>

\* lines 152-155; iterating over None raises TypeError, caught at line 160
Submit ==
    /\ pc_main = "submit"
    /\ IF topic_list.is_none
       THEN /\ pc_main' = "returned"
            /\ unknown_error' = TRUE
            /\ task' = task
       ELSE IF Len(task) < Len(topic_list.items)
       THEN /\ task' = Append(task, NewTask(topic_list.items[Len(task) + 1]))
            /\ UNCHANGED << pc_main, unknown_error >>
       ELSE /\ pc_main' = "wait"
            /\ UNCHANGED << task, unknown_error >>
    /\ UNCHANGED << topic_file, max_workers, topic_list, shared_data_frame,
                    lock, csv >>

\* variant: main does not wait for the futures
WaitNoBarrier ==
    /\ pc_main = "wait"
    /\ pc_main' = "to_csv"
    /\ UNCHANGED << topic_file, max_workers, topic_list, shared_data_frame,
                    task, lock, unknown_error, csv >>

\* line 157: concurrent.futures.wait(futures)
Wait ==
    /\ pc_main = "wait"
    /\ \A k \in Tasks : Terminal(k)
    /\ pc_main' = "to_csv"
    /\ UNCHANGED << topic_file, max_workers, topic_list, shared_data_frame,
                    task, lock, unknown_error, csv >>

\* lines 158-159
ToCsv ==
    /\ pc_main = "to_csv"
    /\ csv' = Append(csv, shared_data_frame)
    /\ pc_main' = "returned"
    /\ UNCHANGED << topic_file, max_workers, topic_list, shared_data_frame,
                    task, lock, unknown_error >>

(***************************************************************************)
(* The pool: a free worker takes the oldest queued task                    *)
(***************************************************************************)
\* variant: every queued task is started at once, whatever the pool size
StartNoLimit(k) ==
    /\ task[k].pc = "queued"
    /\ \A j \in 1..(k - 1) : task[j].pc # "queued"
    /\ task' = [task EXCEPT ![k].pc = "call"]
    /\ UNCHANGED << topic_file, max_workers, pc_main, topic_list,
                    shared_data_frame, lock, unknown_error, csv >>

Start(k) ==
    /\ task[k].pc = "queued"
    /\ Cardinality(Running) < max_workers
    /\ \A j \in 1..(k - 1) : task[j].pc # "queued"
    /\ task' = [task EXCEPT ![k].pc = "call"]
    /\ UNCHANGED << topic_file, max_workers, pc_main, topic_list,
                    shared_data_frame, lock, unknown_error, csv >>

(***************************************************************************)
(* retry_on_rate_limit_exception, lines 30-44, around get_wikipedia_page,  *)
(* as called from words_distribution_to_dict, lines 103-110                *)
(***************************************************************************)
\* variant: the sleep sits in a finally clause and also delays a result
CallSleepsAlways(k) ==
    /\ task[k].pc = "call"
    /\ \E response \in Responses(task[k].topic) :
         LET r == get_wikipedia_page(response)
             t == [task[k] EXCEPT !.calls = @ + 1, !.response = response.kind,
                                  !.log = @ \cup r.out]
         IN  task' = [task EXCEPT ![k] =
                CASE r.exc = "RateLimitException" ->
                        [t EXCEPT !.pc = "sleep", !.limited = @ + 1,
                                  !.log = @ \cup {"Rate limit exceeded"}]
                  [] r.exc = "ConnectionError" ->
                        [t EXCEPT !.pc = "check_none",
                                  !.log = @ \cup {"Connection error occurred"}]
                  [] OTHER ->
                        [t EXCEPT !.pc = "check_none", !.delays = @ + 1,
                                  !.page_content = r.ret]]
    /\ UNCHANGED << topic_file, max_workers, pc_main, topic_list,
                    shared_data_frame, lock, unknown_error, csv >>

\* variant: the wrapper catches Exception and retries a transport error too
CallRetriesAnyError(k) ==
    /\ task[k].pc = "call"
    /\ \E response \in Responses(task[k].topic) :
         LET r == get_wikipedia_page(response)
             t == [task[k] EXCEPT !.calls = @ + 1, !.response = response.kind,
                                  !.log = @ \cup r.out]
         IN  task' = [task EXCEPT ![k] =
                CASE r.exc # "" ->
                        [t EXCEPT !.pc = "sleep", !.limited = @ + 1,
                                  !.log = @ \cup {"Rate limit exceeded"}]
                  [] OTHER ->
                        [t EXCEPT !.pc = "check_none",
                                  !.page_content = r.ret]]
    /\ UNCHANGED << topic_file, max_workers, pc_main, topic_list,
                    shared_data_frame, lock, unknown_error, csv >>

\* one pass of the for loop: func(*args) and what follows it
Call(k) ==
    /\ task[k].pc = "call"
    /\ \E response \in Responses(task[k].topic) :
         LET r == get_wikipedia_page(response)
             t == [task[k] EXCEPT !.calls = @ + 1, !.response = response.kind,
                                  !.log = @ \cup r.out]
         IN  task' = [task EXCEPT ![k] =
                CASE r.exc = "RateLimitException" ->
                        [t EXCEPT !.pc = "sleep", !.limited = @ + 1,
                                  !.log = @ \cup {"Rate limit exceeded"}]
                  [] r.exc = "ConnectionError" ->
                        [t EXCEPT !.pc = "check_none",
                                  !.log = @ \cup {"Connection error occurred"}]
                  [] OTHER ->
                        [t EXCEPT !.pc = "check_none",
                                  !.page_content = r.ret]]
    /\ UNCHANGED << topic_file, max_workers, pc_main, topic_list,
                    shared_data_frame, lock, unknown_error, csv >>

\* variant: the loop runs one pass too many, range(max_retries + 1)
SleepOneMore(k) ==
    /\ task[k].pc = "sleep"
    /\ \E retry_delay \in 1..7 :
         task' = [task EXCEPT ![k] =
            IF task[k].calls < max_retries + 1
            THEN [@ EXCEPT !.delays = @ + 1, !.pc = "call"]
            ELSE [@ EXCEPT !.delays = @ + 1, !.pc = "check_none",
                           !.page_content = PyNone,
                           !.log = @ \cup {"Could not retrieve page"}]]
    /\ UNCHANGED << topic_file, max_workers, pc_main, topic_list,
                    shared_data_frame, lock, unknown_error, csv >>

\* variant: no sleep after the last attempt, the failure is logged at once
SleepNotAfterLast(k) ==
    /\ task[k].pc = "sleep"
    /\ \E retry_delay \in 1..7 :
         task' = [task EXCEPT ![k] =
            IF task[k].calls < max_retries
            THEN [@ EXCEPT !.delays = @ + 1, !.pc = "call"]
            ELSE [@ EXCEPT !.pc = "check_none",
                           !.page_content = PyNone,
                           !.log = @ \cup {"Could not retrieve page"}]]
    /\ UNCHANGED << topic_file, max_workers, pc_main, topic_list,
                    shared_data_frame, lock, unknown_error, csv >>

\* variant: the wrapper raises once the attempts are used up
SleepRaisesWhenExhausted(k) ==
    /\ task[k].pc = "sleep"
    /\ \E retry_delay \in 1..7 :
         task' = [task EXCEPT ![k] =
            IF task[k].calls < max_retries
            THEN [@ EXCEPT !.delays = @ + 1, !.pc = "call"]
            ELSE [@ EXCEPT !.delays = @ + 1, !.pc = "raised",
                           !.exc = "RateLimitException",
                           !.log = @ \cup {"Could not retrieve page"}]]
    /\ UNCHANGED << topic_file, max_workers, pc_main, topic_list,
                    shared_data_frame, lock, unknown_error, csv >>

\* lines 38-42: time.sleep(retry_delay), then the next pass, or after the
\* last pass the error log and the implicit return None
Sleep(k) ==
    /\ task[k].pc = "sleep"
    /\ \E retry_delay \in 1..7 :
         task' = [task EXCEPT ![k] =
            IF task[k].calls < max_retries
            THEN [@ EXCEPT !.delays = @ + 1, !.pc = "call"]
            ELSE [@ EXCEPT !.delays = @ + 1, !.pc = "check_none",
                           !.page_content = PyNone,
                           !.log = @ \cup {"Could not retrieve page"}]]
    /\ UNCHANGED << topic_file, max_workers, pc_main, topic_list,
                    shared_data_frame, lock, unknown_error, csv >>

(***************************************************************************)
(* words_distribution_to_dict, lines 112-123, and the except clause of     *)
(* word_distribution_task, lines 131-133                                   *)
(***************************************************************************)
\* variant: the task tokenizes only once the lock is free
CheckNoneNeedsLock(k) ==
    /\ task[k].pc = "check_none"
    /\ lock = 0
    /\ task' = [task EXCEPT ![k] =
          CASE task[k].page_content = Unbound ->
                  [@ EXCEPT !.pc = "raised", !.exc = "UnboundLocalError"]
            [] task[k].page_content = PyNone ->
                  [@ EXCEPT !.pc = "returned", !.log = @ \cup {"Page not found"}]
            [] OTHER ->
                  [@ EXCEPT !.pc = "acquire",
                            !.words_count_dict = words_count(task[k].page_content.text)]]
    /\ UNCHANGED << topic_file, max_workers, pc_main, topic_list,
                    shared_data_frame, lock, unknown_error, csv >>

CheckNone(k) ==
    /\ task[k].pc = "check_none"
    /\ task' = [task EXCEPT ![k] =
          CASE task[k].page_content = Unbound ->
                  [@ EXCEPT !.pc = "raised", !.exc = "UnboundLocalError"]
            [] task[k].page_content = PyNone ->
                  [@ EXCEPT !.pc = "returned", !.log = @ \cup {"Page not found"}]
            [] OTHER ->
                  [@ EXCEPT !.pc = "acquire",
                            !.words_count_dict = words_count(task[k].page_content.text)]]
    /\ UNCHANGED << topic_file, max_workers, pc_main, topic_list,
                    shared_data_frame, lock, unknown_error, csv >>

(***************************************************************************)
(* word_distribution_task, lines 134-139                                   *)
(***************************************************************************)
\* variant: the task enters the loop without taking the lock
AcquireNoLock(k) ==
    /\ task[k].pc = "acquire"
    /\ lock' = k
    /\ task' = [task EXCEPT ![k].pc = "for_word", ![k].word = 1]
    /\ UNCHANGED << topic_file, max_workers, pc_main, topic_list,
                    shared_data_frame, unknown_error, csv >>

\* line 134
Acquire(k) ==
    /\ task[k].pc = "acquire"
    /\ lock = 0
    /\ lock' = k
    /\ task' = [task EXCEPT ![k].pc = "for_word", ![k].word = 1]
    /\ UNCHANGED << topic_file, max_workers, pc_main, topic_list,
                    shared_data_frame, unknown_error, csv >>

\* variant: with no word left the task returns from inside the section
ForWordReturnsEarly(k) ==
    /\ task[k].pc = "for_word"
    /\ task' = [task EXCEPT ![k].pc =
          IF task[k].word > Len(task[k].words_count_dict) THEN "returned"
          ELSE IF task[k].words_count_dict[task[k].word].word
                    \notin Range(shared_data_frame.columns)
               THEN "new_column"
               ELSE "set_cell"]
    /\ UNCHANGED << topic_file, max_workers, pc_main, topic_list,
                    shared_data_frame, lock, unknown_error, csv >>

\* lines 135-136: the next key, and the test word not in df.columns
ForWord(k) ==
    /\ task[k].pc = "for_word"
    /\ task' = [task EXCEPT ![k].pc =
          IF task[k].word > Len(task[k].words_count_dict) THEN "release"
          ELSE IF task[k].words_count_dict[task[k].word].word
                    \notin Range(shared_data_frame.columns)
               THEN "new_column"
               ELSE "set_cell"]
    /\ UNCHANGED << topic_file, max_workers, pc_main, topic_list,
                    shared_data_frame, lock, unknown_error, csv >>

\* line 137
NewColumn(k) ==
    /\ task[k].pc = "new_column"
    /\ shared_data_frame' =
          SetColumnNone(shared_data_frame,
                        task[k].words_count_dict[task[k].word].word)
    /\ task' = [task EXCEPT ![k].pc = "set_cell"]
    /\ UNCHANGED << topic_file, max_workers, pc_main, topic_list, lock,
                    unknown_error, csv >>

\* variant: the lock is taken and released around each cell write
SetCellRelocks(k) ==
    /\ task[k].pc = "set_cell"
    /\ shared_data_frame' =
          SetAt(shared_data_frame, task[k].topic,
                task[k].words_count_dict[task[k].word].word,
                task[k].words_count_dict[task[k].word].count)
    /\ lock' = 0
    /\ task' = [task EXCEPT ![k].pc = "acquire", ![k].word = @ + 1]
    /\ UNCHANGED << topic_file, max_workers, pc_main, topic_list,
                    unknown_error, csv >>

\* line 138
SetCell(k) ==
    /\ task[k].pc = "set_cell"
    /\ shared_data_frame' =
          SetAt(shared_data_frame, task[k].topic,
                task[k].words_count_dict[task[k].word].word,
                task[k].words_count_dict[task[k].word].count)
    /\ task' = [task EXCEPT ![k].pc = "for_word", ![k].word = @ + 1]
    /\ UNCHANGED << topic_file, max_workers, pc_main, topic_list, lock,
                    unknown_error, csv >>

\* variant: the task returns from the loop without lock.release()
ReleaseKeepsLock(k) ==
    /\ task[k].pc = "release"
    /\ task' = [task EXCEPT ![k].pc = "returned"]
    /\ UNCHANGED << topic_file, max_workers, pc_main, topic_list,
                    shared_data_frame, lock, unknown_error, csv >>

\* line 139
Release(k) ==
    /\ task[k].pc = "release"
    /\ lock' = 0
    /\ task' = [task EXCEPT ![k].pc = "returned"]
    /\ UNCHANGED << topic_file, max_workers, pc_main, topic_list,
                    shared_data_frame, unknown_error, csv >>

Next ==
    \/ ReadFile
    \/ Submit
    \/ Wait
    \/ ToCsv
    \/ \E k \in Tasks : Start(k)
    \/ \E k \in Tasks : Call(k)
    \/ \E k \in Tasks : Sleep(k)
    \/ \E k \in Tasks : CheckNone(k)
    \/ \E k \in Tasks : Acquire(k)
    \/ \E k \in Tasks : ForWord(k)
    \/ \E k \in Tasks : NewColumn(k)
    \/ \E k \in Tasks : SetCell(k)
    \/ \E k \in Tasks : Release(k)

Spec == Init /\ [][Next]_vars

\* main and every pool thread keep running while they can take a step
FairSpec == Spec /\ WF_vars(Next)

(***************************************************************************)
(* words_distribution_to_dict on any text: one topic whose fetch has just  *)
(* returned the text, followed by the rest of the run                      *)
(***************************************************************************)
TokInit ==
    /\ topic_file = [exists |-> TRUE, lines |-> SubSeq(FileLines, 1, 1)]
    /\ max_workers = max_threads
    /\ pc_main = "wait"
    /\ topic_list = read_file(topic_file)
    /\ shared_data_frame = DataFrame(topic_list.items)
    /\ \E t \in Texts :
          task = << [NewTask(topic_list.items[1]) EXCEPT
                       !.pc = "check_none", !.calls = 1, !.response = "page",
                       !.page_content = PyStr(t)] >>
    /\ lock = 0
    /\ unknown_error = FALSE
    /\ csv = << >>

TokNext ==
    \/ \E k \in Tasks : CheckNone(k)
    \/ \E k \in Tasks : Acquire(k)
    \/ \E k \in Tasks : ForWord(k)
    \/ \E k \in Tasks : NewColumn(k)
    \/ \E k \in Tasks : SetCell(k)
    \/ \E k \in Tasks : Release(k)
    \/ Wait
    \/ ToCsv

TokSpec == TokInit /\ [][TokNext]_vars

(***************************************************************************)
(* Definitions used by the properties                                      *)
(***************************************************************************)
\* the task is inside lines 135-139, between lock.acquire() and the end of
\* lock.release()
InSection(k) == task[k].pc \in {"for_word", "new_column", "set_cell", "release"}

\* the retry wrapper has returned or raised
WrapperDone(k) == task[k].pc \notin {"queued", "call", "sleep"}

\* the task's fetch ended in Content
GotContent(k) == WrapperDone(k) /\ task[k].page_content.kind = "str"

\* the task ended with a failure: not found, retries exhausted or an exception
Failed(k) == Terminal(k) /\ task[k].page_content.kind # "str"

\* the phase of a task: queued, fetching (attempts and sleeps), tokenizing,
\* waiting for the lock, writing, done
Phase(pc) ==
    CASE pc = "queued" -> 0
      [] pc \in {"call", "sleep"} -> 1
      [] pc = "check_none" -> 2
      [] pc = "acquire" -> 3
      [] pc \in {"for_word", "new_column", "set_cell", "release"} -> 4
      [] OTHER -> 5

\* lines 135-138 run alone from item i of the dict on
RECURSIVE AbsorbFrom(_, _, _, _)
AbsorbFrom(df, topic, d, i) ==
    IF i > Len(d) THEN df
    ELSE LET withColumn == IF d[i].word \in Range(df.columns) THEN df
                           ELSE SetColumnNone(df, d[i].word)
         IN  AbsorbFrom(SetAt(withColumn, topic, d[i].word, d[i].count),
                        topic, d, i + 1)

\* the frame a single worker builds, taking the tasks in submission order,
\* from the pages the tasks k.. of this run fetched
RECURSIVE OneWorkerFrame(_, _)
OneWorkerFrame(df, k) ==
    IF k > Len(task) THEN df
    ELSE OneWorkerFrame(
            IF task[k].page_content.kind = "str"
            THEN AbsorbFrom(df, task[k].topic,
                            Tokenize(task[k].page_content.text), 1)
            ELSE df,
            k + 1)

\* the number of maximal runs of ASCII letters in s that spell w when
\* lower-cased
OccurrenceCount(w, s) ==
    Cardinality({ i \in 1..Len(s) :
                    /\ IsLetter(s[i])
                    /\ (i = 1 \/ ~IsLetter(s[i - 1]))
                    /\ LowerStr(s, i, LetterRunEnd(s, i)) = w })

\* every cell of the row of topic in df is None
RowAbsent(df, topic) ==
    /\ topic \in Range(df.index)
    /\ topic \in DOMAIN df.cells
    /\ \A w \in DOMAIN df.cells[topic] : df.cells[topic][w] = None

(***************************************************************************)
(* C1: the csv written with any pool size holds the same rows, cells and   *)
(* set of columns as the frame one worker builds from the same fetched     *)
(* pages, and with a pool of one it is that frame, column order included.  *)
(***************************************************************************)
C1_SameTableForAnyPool ==
    \A i \in 1..Len(csv) :
        LET one == OneWorkerFrame(DataFrame(topic_list.items), 1)
        IN  /\ csv[i].index = one.index
            /\ csv[i].cells = one.cells
            /\ Range(csv[i].columns) = Range(one.columns)
            /\ Len(csv[i].columns) = Len(one.columns)
            /\ (max_workers = 1 => csv[i] = one)

\* a pool of several workers wrote a csv whose columns were created in
\* another order than one worker creates them
C1_Witness ==
    /\ max_workers > 1
    /\ csv # << >>
    /\ \E j, k \in Tasks : j # k /\ GotContent(j) /\ GotContent(k)
    /\ csv[1].columns # OneWorkerFrame(DataFrame(topic_list.items), 1).columns

(***************************************************************************)
(* C2: at most one task is between lock.acquire() and lock.release(), and  *)
(* it holds the lock; when two tasks that share a word have both returned, *)
(* the word has one column and each task's cell holds its own count.       *)
(***************************************************************************)
C2_OneWriterNoLostCell ==
    /\ \A j, k \in Tasks : InSection(j) /\ InSection(k) => j = k
    /\ \A k \in Tasks : InSection(k) => lock = k
    /\ \A j, k \in Tasks :
         /\ j # k
         /\ GotContent(j) /\ task[j].pc = "returned"
         /\ GotContent(k) /\ task[k].pc = "returned"
         => \A w \in DictKeys(task[j].words_count_dict)
                        \cap DictKeys(task[k].words_count_dict) :
              /\ Cardinality({ c \in 1..Len(shared_data_frame.columns) :
                                 shared_data_frame.columns[c] = w }) = 1
              /\ shared_data_frame.cells[task[j].topic][w]
                    = DictGet(task[j].words_count_dict, w)
              /\ shared_data_frame.cells[task[k].topic][w]
                    = DictGet(task[k].words_count_dict, w)

\* one task is about to create the column of a word while another task,
\* whose dict holds the same word, waits for the lock
C2_Witness ==
    \E j, k \in Tasks :
        /\ j # k
        /\ task[j].pc = "new_column"
        /\ task[k].pc = "acquire"
        /\ task[j].words_count_dict[task[j].word].word
              \in DictKeys(task[k].words_count_dict)

(***************************************************************************)
(* C3: no task makes more than 3 fetch attempts, and a task all of whose   *)
(* attempts were rate-limited leaves the wrapper after exactly 3 attempts  *)
(* with "Could not retrieve page" logged and None returned.                *)
(***************************************************************************)
C3_RetryBound ==
    \A k \in Tasks :
        /\ task[k].calls <= 3
        /\ (WrapperDone(k) /\ task[k].limited = task[k].calls
              => /\ task[k].calls = 3
                 /\ "Could not retrieve page" \in task[k].log
                 /\ task[k].page_content = PyNone)

\* a task was rate-limited on every attempt and has left the wrapper
C3_Witness ==
    \E k \in Tasks :
        /\ WrapperDone(k)
        /\ task[k].limited = task[k].calls
        /\ "Could not retrieve page" \in task[k].log

C5_FailureIsolated ==
    (\E k \in Tasks : Failed(k))
        ~> (/\ pc_main = "returned"
            /\ Len(csv) = 1
            /\ Len(task) = Len(topic_list.items)
            /\ \A j \in Tasks : Terminal(j))

\* the csv is written, one task raised, another one was not found or gave
\* up, and a third kind of task wrote its cells
C5_Witness ==
    /\ Len(csv) = 1
    /\ \E k \in Tasks : task[k].exc = "UnboundLocalError"
    /\ \E k \in Tasks :
         /\ task[k].pc = "returned"
         /\ GotContent(k)
         /\ \E j \in 1..(k - 1) : Failed(j)
         /\ task[k].words_count_dict # << >>

(***************************************************************************)
(* C6 as stated: an attempt whose response has no 'query' key, or whose    *)
(* JSON body is null, counts as rate-limited.                              *)
(***************************************************************************)
C6_Original ==
    \A k \in Tasks :
        task[k].response \in {"no_query", "null"}
            => task[k].limited = task[k].calls

(***************************************************************************)
(* C6 amended: an attempt whose JSON body is null is rate-limited: it is   *)
(* followed by a backoff and then by another attempt, or after the third   *)
(* attempt by the "Could not retrieve page" failure; an attempt whose      *)
(* response has no 'query' key is final: None is returned with the         *)
(* "'query' key not found" message, without backoff or further attempt.    *)
(***************************************************************************)
C6_NullBodyRetriedNoQueryFinal ==
    \A k \in Tasks :
        /\ task[k].response = "null"
              => /\ task[k].limited = task[k].calls
                 /\ \/ task[k].pc = "sleep" /\ task[k].delays = task[k].limited - 1
                    \/ /\ task[k].delays = task[k].limited
                       /\ IF task[k].calls < 3 THEN task[k].pc = "call"
                          ELSE "Could not retrieve page" \in task[k].log
        /\ task[k].response = "no_query"
              => /\ task[k].limited = task[k].calls - 1
                 /\ task[k].delays = task[k].limited
                 /\ task[k].page_content = PyNone
                 /\ task[k].pc \in {"check_none", "returned"}
                 /\ "'query' key not found" \in task[k].log

\* one task returned after a response without 'query' on its first attempt
\* while another is about to retry after a null body
C6_Witness ==
    /\ \E k \in Tasks :
         /\ task[k].response = "no_query"
         /\ task[k].calls = 1
         /\ task[k].pc = "returned"
    /\ \E k \in Tasks :
         /\ task[k].response = "null"
         /\ task[k].pc = "call"
         /\ task[k].delays = 1

(***************************************************************************)
(* C7: a task whose last attempt gave a page or the "-1" page id left the  *)
(* wrapper with that result after one attempt more than it was             *)
(* rate-limited and with as many delays as rate-limited attempts; when it  *)
(* returns after a page it has neither raised nor reported a failure.      *)
(***************************************************************************)
C7_ReturnsAtFirstFinalOutcome ==
    \A k \in Tasks :
        task[k].response \in {"page", "-1"}
            => /\ WrapperDone(k)
               /\ task[k].limited < 3
               /\ task[k].calls = task[k].limited + 1
               /\ task[k].delays = task[k].limited
               /\ task[k].page_content.kind
                     = (IF task[k].response = "page" THEN "str" ELSE "None")
               /\ (task[k].response = "page" /\ Terminal(k)
                     => /\ task[k].pc = "returned"
                        /\ task[k].exc = ""
                        /\ task[k].log \subseteq {"Rate limit exceeded"})

\* rate-limited twice, then a page on the third attempt: returned with its
\* cells written after exactly 2 delays
C7_Witness ==
    \E k \in Tasks :
        /\ task[k].response = "page"
        /\ task[k].limited = 2
        /\ task[k].calls = 3
        /\ task[k].delays = 2
        /\ task[k].pc = "returned"
        /\ task[k].words_count_dict # << >>

(***************************************************************************)
(* C8: after an attempt that failed with a transport error the wrapper     *)
(* makes no further attempt and no backoff: the error is with the caller,  *)
(* which printed it, the attempt was the only one that was not             *)
(* rate-limited, and the delays are those of the rate-limited attempts.    *)
(***************************************************************************)
C8_TransportErrorNotRetried ==
    \A k \in Tasks :
        task[k].response = "ConnectionError"
            => /\ task[k].pc \in {"check_none", "raised"}
               /\ "Connection error occurred" \in task[k].log
               /\ task[k].calls = task[k].limited + 1
               /\ task[k].delays = task[k].limited
               /\ task[k].page_content = Unbound

\* a transport error on the first attempt: one attempt, no delay, raised
C8_Witness ==
    \E k \in Tasks :
        /\ task[k].response = "ConnectionError"
        /\ task[k].calls = 1
        /\ task[k].delays = 0
        /\ task[k].pc = "raised"

(***************************************************************************)
(* C9 as stated: when a task whose fetch ended in Content has returned,    *)
(* the cell of its topic and each word of its word map holds the number of *)
(* occurrences of the word in the content (maximal runs of letters,        *)
(* case-insensitive), in the frame and in the csv once written.            *)
(***************************************************************************)
C9_CellIsOccurrenceCount ==
    \A k \in Tasks :
        GotContent(k) /\ task[k].pc = "returned"
            => \A w \in DictKeys(task[k].words_count_dict) :
                  /\ shared_data_frame.cells[task[k].topic][w]
                        = OccurrenceCount(w, task[k].page_content.text)
                  /\ \A i \in 1..Len(csv) :
                        csv[i].cells[task[k].topic][w]
                           = OccurrenceCount(w, task[k].page_content.text)

(***************************************************************************)
(* C10: a task whose fetch did not end in Content never reaches the lock   *)
(* or the loop over its words, has an empty word map, and the row of its   *)
(* topic exists with every cell None, in the frame and in the csv.         *)
(***************************************************************************)
C10_FailedTopicRowAbsent ==
    \A k \in Tasks :
        WrapperDone(k) /\ task[k].page_content.kind # "str"
            => /\ task[k].pc \in {"check_none", "returned", "raised"}
               /\ task[k].words_count_dict = << >>
               /\ RowAbsent(shared_data_frame, task[k].topic)
               /\ \A i \in 1..Len(csv) : RowAbsent(csv[i], task[k].topic)

\* the csv is written with columns of another topic, and the topic whose
\* page id was "-1" has its row
C10_Witness ==
    /\ csv # << >>
    /\ csv[1].columns # << >>
    /\ \E k \in Tasks :
         /\ task[k].response = "-1"
         /\ task[k].pc = "returned"
         /\ RowAbsent(csv[1], task[k].topic)

(***************************************************************************)
(* C11: the tasks that were started and are not yet terminal are never     *)
(* more than the pool size, which is at most 3; a queued task is started   *)
(* only while fewer than that many are running.                            *)
(***************************************************************************)
C11_PoolBound ==
    [][ /\ Cardinality(Running) <= max_workers
        /\ max_workers <= max_threads
        /\ \A k \in Tasks :
              task[k].pc = "queued" /\ task'[k].pc # "queued"
                 => Cardinality(Running) < max_workers ]_vars

\* the pool is full and the next topic waits in the queue
C11_Witness ==
    /\ Cardinality(Running) = max_workers
    /\ \E k \in Tasks : task[k].pc = "queued"

(***************************************************************************)
(* C12: no step removes a column: the columns of the frame after a step    *)
(* include its columns before the step.                                    *)
(***************************************************************************)
C12_ColumnsOnlyGrow ==
    [][ Range(shared_data_frame.columns) \subseteq Range(shared_data_frame.columns') ]_vars

\* two tasks have written their words and the frame has their columns
C12_Witness ==
    /\ Len(shared_data_frame.columns) >= 2
    /\ \E j, k \in Tasks :
         /\ j # k
         /\ GotContent(j) /\ task[j].pc = "returned"
         /\ GotContent(k) /\ task[k].pc = "returned"

(***************************************************************************)
(* C13 as stated: the word map the tokenizer returns for a text has as     *)
(* keys exactly the maximal runs of ASCII letters of the text, lower-cased *)
(* (a run next to a digit or an underscore included), and as the count of  *)
(* each key the number of such runs that spell it.                         *)
(***************************************************************************)
C13_WordsAreMaximalLetterRuns ==
    \A k \in Tasks :
        GotContent(k) /\ task[k].pc # "check_none"
            => LET s == task[k].page_content.text
                   d == task[k].words_count_dict
                   starts == { i \in 1..Len(s) :
                                 IsLetter(s[i]) /\ (i = 1 \/ ~IsLetter(s[i - 1])) }
               IN  /\ DictKeys(d)
                        = { LowerStr(s, i, LetterRunEnd(s, i)) : i \in starts }
                   /\ \A w \in DictKeys(d) : DictGet(d, w) = OccurrenceCount(w, s)

(***************************************************************************)
(* C14: when the topic file cannot be read, read_file yields no list, no   *)
(* task is ever submitted (so no fetch is made), nothing is written to the *)
(* frame or handed off, and main never leaves through an uncaught          *)
(* exception: it ends by returning after the "Unknown Error" diagnostic.   *)
(***************************************************************************)
C14_UnreadableTopicsEndCleanly ==
    ~topic_file.exists =>
        /\ pc_main \in {"read_file", "submit", "returned"}
        /\ pc_main # "read_file" => topic_list.is_none
        /\ task = << >>
        /\ shared_data_frame = DataFrame(<< >>)
        /\ csv = << >>
        /\ lock = 0
        /\ unknown_error <=> pc_main = "returned"

\* the run with a missing topic file has ended with the diagnostic
C14_Witness ==
    /\ ~topic_file.exists
    /\ pc_main = "returned"
    /\ unknown_error
    /\ task = << >>

(***************************************************************************)
(* C15: the lock is held only by a task inside lines 135-139 (column       *)
(* creation and cell writes); a task that fetches, sleeps or tokenizes     *)
(* does not hold it and can take its step whoever holds it; a task that    *)
(* waits at lock.acquire() waits only for a task inside lines 135-139.     *)
(***************************************************************************)
C15_LockOnlyAroundWrites ==
    /\ lock # 0 => lock \in Tasks /\ InSection(lock)
    /\ \A k \in Tasks :
         /\ task[k].pc \in {"call", "sleep", "check_none"} => lock # k
         /\ task[k].pc = "call" => ENABLED Call(k)
         /\ task[k].pc = "sleep" => ENABLED Sleep(k)
         /\ task[k].pc = "check_none" => ENABLED CheckNone(k)
         /\ task[k].pc = "acquire" /\ ~ENABLED Acquire(k)
               => \E j \in Tasks \ {k} : lock = j /\ InSection(j)

\* one task holds the lock while another is between two fetch attempts
C15_Witness ==
    \E j, k \in Tasks :
        /\ lock = j
        /\ InSection(j)
        /\ task[k].pc = "sleep"

(***************************************************************************)
(* C16: when main and every worker keep taking steps, the run reaches and  *)
(* stays in the state where main has returned and, if the topic file was   *)
(* read, one task per line of the file exists, each of them is terminal    *)
(* after at most max_retries fetch attempts, and the csv is written: no    *)
(* task retries or waits for the lock for ever.                            *)
(***************************************************************************)
C16_EveryTopicTerminates ==
    <>[](/\ pc_main = "returned"
         /\ topic_file.exists
               => Len(task) = Len(topic_file.lines) /\ Len(csv) = 1
         /\ \A k \in Tasks : Terminal(k) /\ task[k].calls <= max_retries)

\* the run is over after one task used every attempt and two tasks went
\* through the lock
C16_Witness ==
    /\ pc_main = "returned"
    /\ Len(csv) = 1
    /\ \A k \in Tasks : Terminal(k)
    /\ \E k \in Tasks : task[k].delays > 0
    /\ \E j, k \in Tasks :
         j # k /\ task[j].words_count_dict # << >> /\ task[k].words_count_dict # << >>

(***************************************************************************)
(* C17: within a task the phases come in order and never repeat: fetch     *)
(* attempts and sleeps, then tokenizing, then the wait for the lock, then  *)
(* the writes.  Once the wrapper has returned, no further attempt or sleep *)
(* is made and the content stays as fetched; the word map is set by the    *)
(* tokenizing step only; the lock is taken only by a task that waits at    *)
(* lock.acquire() with content fetched and tokenized, and given up only by *)
(* a task that then returns, so a task takes the lock at most once.        *)
(***************************************************************************)
C17_FetchThenTokenizeThenAbsorb ==
    [][ \A k \in Tasks :
          /\ Phase(task[k].pc) <= Phase(task'[k].pc)
          /\ WrapperDone(k)
                => /\ task'[k].calls = task[k].calls
                   /\ task'[k].delays = task[k].delays
                   /\ task'[k].page_content = task[k].page_content
          /\ task'[k].words_count_dict # task[k].words_count_dict
                => /\ task[k].pc = "check_none"
                   /\ task'[k].words_count_dict = Tokenize(task[k].page_content.text)
          /\ lock # k /\ lock' = k
                => /\ task[k].pc = "acquire"
                   /\ GotContent(k)
                   /\ task[k].words_count_dict = Tokenize(task[k].page_content.text)
          /\ lock = k /\ lock' # k => task'[k].pc = "returned"
          /\ shared_data_frame' # shared_data_frame /\ lock = k
                => GotContent(k) /\ lock' = k ]_vars

\* a task that slept between attempts, fetched content and wrote more than
\* one cell has returned
C17_Witness ==
    \E k \in Tasks :
        /\ task[k].pc = "returned"
        /\ GotContent(k)
        /\ task[k].delays > 0
        /\ Len(task[k].words_count_dict) > 1
        /\ shared_data_frame.cells[task[k].topic][task[k].words_count_dict[2].word] # None

(***************************************************************************)
(* C18: the wrapper sleeps after every rate-limited attempt, the last one  *)
(* included: the sleeps done are the rate-limited attempts made, less the  *)
(* one whose sleep is still to come; a topic whose max_retries attempts    *)
(* were all rate-limited has slept max_retries times when the failure is   *)
(* logged.                                                                 *)
(***************************************************************************)
C18_SleepAfterEveryRateLimit ==
    \A k \in Tasks :
        /\ task[k].delays
              = task[k].limited - (IF task[k].pc = "sleep" THEN 1 ELSE 0)
        /\ "Could not retrieve page" \in task[k].log
              => /\ task[k].calls = max_retries
                 /\ task[k].limited = max_retries
                 /\ task[k].delays = max_retries

\* a task used every attempt, slept after the last one and logged the failure
C18_Witness ==
    \E k \in Tasks :
        /\ "Could not retrieve page" \in task[k].log
        /\ task[k].delays = max_retries
        /\ task[k].pc = "check_none"

(***************************************************************************)
(* C19: a task that took the lock gives it up before it is terminal: no    *)
(* terminal task holds the lock, every step that takes a lock holder out   *)
(* of lines 135-139 frees the lock, and the lock is free once main is past *)
(* the barrier and at hand-off.                                            *)
(***************************************************************************)
C19_LockReleasedBeforeTerminal ==
    [][ /\ \A k \in Tasks :
             /\ Terminal(k) => lock # k
             /\ lock = k /\ InSection(k) /\ ~(task'[k].pc \in
                     {"for_word", "new_column", "set_cell", "release"})
                   => lock' = 0 /\ task'[k].pc = "returned"
        /\ pc_main \in {"to_csv", "returned"} => lock = 0
        /\ csv' # csv => lock = 0 /\ lock' = 0 ]_vars

\* both tasks of a run took the lock, the second after the first gave it up,
\* and the csv is written
C19_Witness ==
    /\ Len(csv) = 1
    /\ lock = 0
    /\ \E j, k \in Tasks :
         /\ j # k
         /\ task[j].pc = "returned" /\ GotContent(j)
         /\ task[k].pc = "returned" /\ GotContent(k)
         /\ RowAbsent(csv[1], task[k].topic) = FALSE

(***************************************************************************)
(* C20: when the attempts are used up the wrapper returns None, as the     *)
(* fetcher does for a missing page or a response without 'query': from     *)
(* then on such a task has page_content None in each of the three cases,   *)
(* and it ends the same way in each: it returns (no exception), logs       *)
(* "Page not found", has no word map and leaves its row empty.             *)
(***************************************************************************)
C20_ExhaustedLooksLikeNotFound ==
    \A k \in Tasks :
        LET exhausted == "Could not retrieve page" \in task[k].log
            not_found == WrapperDone(k) /\ task[k].response \in {"-1", "no_query"}
        IN  /\ exhausted => WrapperDone(k) /\ task[k].response \in {"429", "null"}
            /\ exhausted \/ not_found
                  => /\ task[k].page_content = PyNone
                     /\ task[k].pc \in {"check_none", "returned"}
                     /\ task[k].exc = ""
                     /\ task[k].words_count_dict = << >>
                     /\ RowAbsent(shared_data_frame, task[k].topic)
                     /\ task[k].pc = "returned" <=> "Page not found" \in task[k].log

\* one task gave up after max_retries attempts, another one was not found,
\* and both have ended
C20_Witness ==
    \E j, k \in Tasks :
        /\ "Could not retrieve page" \in task[j].log
        /\ task[j].pc = "returned"
        /\ task[k].response = "-1"
        /\ task[k].pc = "returned"
        /\ "Page not found" \in task[j].log \cap task[k].log

====
